---- MODULE Spec2Model ----
(***************************************************************************)
(* A model of seika: the tagged Result value (helpers.ts, result-type.ts), *)
(* the functional combinators (methods.ts) and the Res / Ok / Err classes  *)
(* (result-class.ts).                                                      *)
(*                                                                         *)
(* Every Result is a JavaScript object, so the model keeps a heap of       *)
(* objects and passes references (indices into the heap).  An operation    *)
(* is an operator from the heap and its arguments to an outcome: the heap  *)
(* after the call, what was returned or thrown, and the log of the calls   *)
(* made to the caller's callbacks.  An action applies one operation to     *)
(* objects of the heap and records the outcome in `last`.                  *)
(***************************************************************************)
EXTENDS Integers, Sequences, FiniteSets, TLC

VARIABLES heap, last

vars == <<heap, last>>

(* ---------------------------- bounds ----------------------------------- *)

\* payloads are the numbers 0..MaxPayload (0 is a falsy payload)
MaxPayload == 1

\* at most MaxObjs objects are ever allocated: the caller makes its calls
\* while fewer than MaxObjs exist (a call allocates at most one)
MaxObjs == 3

Payload == 0..MaxPayload

(* ------------------------- JavaScript values --------------------------- *)

\* the value `undefined` (outside Payload)
Undefined == -1

\* the kind read from an object that has no `kind` property
NoKind == "undefined"

\* no reference
Null == 0

\* reading the property `name` of the object an object literal wrote
Field(lit, name, absent) == IF name \in DOMAIN lit THEN lit[name] ELSE absent

\* The object an object literal { name: value, ... } evaluates to: `own` is
\* the set of the property names the literal wrote, and reading any other
\* property gives undefined.
ObjectLiteral(lit) ==
  [cls |-> "Object",
   kind |-> Field(lit, "kind", NoKind), inner |-> Field(lit, "inner", Undefined),
   value |-> Field(lit, "value", Undefined),
   error |-> Field(lit, "error", Undefined),
   own |-> DOMAIN lit]

\* a plain object {kind, inner}: the Result type
PlainObj(kind, inner) == ObjectLiteral([kind |-> kind, inner |-> inner])

\* new Ok(value): `value` is set by the constructor, `error` is declared only
OkObj(value) ==
  [cls |-> "Ok", kind |-> NoKind, inner |-> Undefined,
   value |-> value, error |-> Undefined, own |-> {"value"}]

\* new Err(error): `error` is set by the constructor, `value` is declared only
ErrObj(error) ==
  [cls |-> "Err", kind |-> NoKind, inner |-> Undefined,
   value |-> Undefined, error |-> error, own |-> {"error"}]

\* no object
NoObj ==
  [cls |-> "none", kind |-> NoKind, inner |-> Undefined,
   value |-> Undefined, error |-> Undefined, own |-> {}]

\* allocation of a new object: the heap after it, and the new reference
Alloc(h, obj) == [heap |-> Append(h, obj), ref |-> Len(h) + 1]

(* ------------------------------ outcomes ------------------------------- *)

\* `return <a Result>`
Ret(h, ref, calls) ==
  [heap |-> h, t |-> "ref", ref |-> ref, val |-> Undefined, flag |-> FALSE,
   message |-> "", obj |-> NoObj, calls |-> calls]

\* `return <a payload or undefined>`
Val(h, v, calls) ==
  [heap |-> h, t |-> "val", ref |-> Null, val |-> v, flag |-> FALSE,
   message |-> "", obj |-> NoObj, calls |-> calls]

\* `return <a boolean>`
Bool(h, b, calls) ==
  [heap |-> h, t |-> "bool", ref |-> Null, val |-> Undefined, flag |-> b,
   message |-> "", obj |-> NoObj, calls |-> calls]

\* `throw new Error(message)`
Throw(h, message, calls) ==
  [heap |-> h, t |-> "throw", ref |-> Null, val |-> Undefined, flag |-> FALSE,
   message |-> message, obj |-> NoObj, calls |-> calls]

\* `return <an object that is not a Result>`: the object goes to the caller
Obj(h, o, calls) ==
  [heap |-> h, t |-> "obj", ref |-> Null, val |-> Undefined, flag |-> FALSE,
   message |-> "", obj |-> o, calls |-> calls]

(* ----------------------- the caller's callbacks ------------------------ *)

\* callbacks from a payload to a payload
ValueFns == {"identity", "succ", "zero"}

\* callbacks from a payload to a boolean
PredFns == {"positive", "always"}

\* callbacks from a payload to a constructed Result
ResultFns == {"wrapOk", "wrapErr", "check"}

\* the messages handed to expect / expectErr
Messages == {"", "custom message"}

ApplyFn(fn, x) ==
  CASE fn = "identity" -> x
    [] fn = "succ"     -> (x + 1) % (MaxPayload + 1)
    [] fn = "zero"     -> 0

ApplyPred(fn, x) ==
  CASE fn = "positive" -> x > 0
    [] fn = "always"   -> TRUE

\* the Result a Result-returning callback constructs: its tag and payload
ApplyResultFn(fn, x) ==
  CASE fn = "wrapOk"  -> [kind |-> "ok", inner |-> x]
    [] fn = "wrapErr" -> [kind |-> "err", inner |-> x]
    [] fn = "check"   -> IF x > 0 THEN [kind |-> "ok", inner |-> x]
                                  ELSE [kind |-> "err", inner |-> MaxPayload]

\* one entry of the call log: which callback, in which role, with which argument
Call(role, fn, arg) == [role |-> role, fn |-> fn, arg |-> arg]

(* ------------------------------ helpers.ts ----------------------------- *)

\* a slip: the discriminant is written under the name `tag`
ok_tagField(h, value) ==
  Alloc(h, ObjectLiteral([tag |-> "ok", inner |-> value]))

ok(h, value) == Alloc(h, PlainObj("ok", value))

\* a slip: err also writes the payload under the name `error`
err_extraField(h, value) ==
  Alloc(h, ObjectLiteral([kind |-> "err", inner |-> value, error |-> value]))

err(h, value) == Alloc(h, PlainObj("err", value))

\* a Result-returning callback of the functional API builds with ok / err
CallResultFn(h, fn, x) ==
  LET d == ApplyResultFn(fn, x)
  IN IF d.kind = "ok" THEN ok(h, d.inner) ELSE err(h, d.inner)

\* the values a callback can be handed
Values == Payload \cup {Undefined}

\* The behaviour of the callback named fn when it is called in heap h: for
\* each argument, the heap after the call, the Result it returned and the
\* calls to the caller's callbacks that were made.
NamedResultFn(h, fn) ==
  [x \in Values |->
     LET a == CallResultFn(h, fn, x)
     IN [heap |-> a.heap, ref |-> a.ref, calls |-> <<Call("fn", fn, x)>>]]

(* ------------------------------ methods.ts ----------------------------- *)

\* a slip: match evaluates both handlers and then picks one result
match_bothHandlers(h, result, onOk, onErr) ==
  Val(h,
      IF h[result].kind = "ok" THEN ApplyFn(onOk, h[result].inner)
                               ELSE ApplyFn(onErr, h[result].inner),
      <<Call("ok", onOk, h[result].inner), Call("err", onErr, h[result].inner)>>)

\* a slip: match hands an ok value to the err handler and an err value to
\* the ok handler
match_handlersSwapped(h, result, onOk, onErr) ==
  IF h[result].kind = "ok"
    THEN Val(h, ApplyFn(onErr, h[result].inner),
             <<Call("err", onErr, h[result].inner)>>)
    ELSE Val(h, ApplyFn(onOk, h[result].inner),
             <<Call("ok", onOk, h[result].inner)>>)

match(h, result, onOk, onErr) ==
  IF h[result].kind = "ok"
    THEN Val(h, ApplyFn(onOk, h[result].inner),
             <<Call("ok", onOk, h[result].inner)>>)
    ELSE Val(h, ApplyFn(onErr, h[result].inner),
             <<Call("err", onErr, h[result].inner)>>)

isOk(h, result) == Bool(h, h[result].kind = "ok", <<>>)

isOkAnd(h, result, predicate) ==
  IF h[result].kind = "ok"
    THEN Bool(h, ApplyPred(predicate, h[result].inner),
              <<Call("predicate", predicate, h[result].inner)>>)
    ELSE Bool(h, FALSE, <<>>)

isErr(h, result) == Bool(h, h[result].kind = "err", <<>>)

\* a slip: isErrAnd joins the tag test and the predicate with || instead of &&
isErrAnd_orInsteadOfAnd(h, result, predicate) ==
  IF h[result].kind = "err"
    THEN Bool(h, TRUE, <<>>)
    ELSE Bool(h, ApplyPred(predicate, h[result].inner),
              <<Call("predicate", predicate, h[result].inner)>>)

isErrAnd(h, result, predicate) ==
  IF h[result].kind = "err"
    THEN Bool(h, ApplyPred(predicate, h[result].inner),
              <<Call("predicate", predicate, h[result].inner)>>)
    ELSE Bool(h, FALSE, <<>>)

resultOk(h, result) ==
  IF h[result].kind = "ok" THEN Val(h, h[result].inner, <<>>)
                           ELSE Val(h, Undefined, <<>>)

resultErr(h, result) ==
  IF h[result].kind = "err" THEN Val(h, h[result].inner, <<>>)
                            ELSE Val(h, Undefined, <<>>)

\* a slip: map re-wraps the payload without applying fn
\* a slip: map builds its result with the tag of mapErr
map_errTag(h, result, fn) ==
  IF h[result].kind = "ok"
    THEN LET a == Alloc(h, PlainObj("err", ApplyFn(fn, h[result].inner)))
         IN Ret(a.heap, a.ref, <<Call("fn", fn, h[result].inner)>>)
    ELSE Ret(h, result, <<>>)

map_withoutFn(h, result, fn) ==
  IF h[result].kind = "ok"
    THEN LET a == Alloc(h, PlainObj("ok", h[result].inner))
         IN Ret(a.heap, a.ref, <<Call("fn", fn, h[result].inner)>>)
    ELSE Ret(h, result, <<>>)

\* a slip: map overwrites the payload of the Result it was given
map_inPlace(h, result, fn) ==
  IF h[result].kind = "ok"
    THEN Ret([h EXCEPT ![result].inner = ApplyFn(fn, @)], result,
             <<Call("fn", fn, h[result].inner)>>)
    ELSE Ret(h, result, <<>>)

map(h, result, fn) ==
  IF h[result].kind = "ok"
    THEN LET a == Alloc(h, PlainObj("ok", ApplyFn(fn, h[result].inner)))
         IN Ret(a.heap, a.ref, <<Call("fn", fn, h[result].inner)>>)
    ELSE Ret(h, result, <<>>)

mapOr(h, result, defaultValue, fn) ==
  IF h[result].kind = "ok"
    THEN Val(h, ApplyFn(fn, h[result].inner),
             <<Call("fn", fn, h[result].inner)>>)
    ELSE Val(h, defaultValue, <<>>)

\* a slip: mapOrElse computes the fallback before it looks at the tag
mapOrElse_eagerFallback(h, result, fallback, fn) ==
  IF h[result].kind = "ok"
    THEN Val(h, ApplyFn(fn, h[result].inner),
             <<Call("fallback", fallback, h[result].inner),
               Call("fn", fn, h[result].inner)>>)
    ELSE Val(h, ApplyFn(fallback, h[result].inner),
             <<Call("fallback", fallback, h[result].inner)>>)

mapOrElse(h, result, fallback, fn) ==
  IF h[result].kind = "ok"
    THEN Val(h, ApplyFn(fn, h[result].inner),
             <<Call("fn", fn, h[result].inner)>>)
    ELSE Val(h, ApplyFn(fallback, h[result].inner),
             <<Call("fallback", fallback, h[result].inner)>>)

\* a slip: mapErr builds its result with the tag of map
mapErr_okTag(h, result, fn) ==
  IF h[result].kind = "err"
    THEN LET a == Alloc(h, PlainObj("ok", ApplyFn(fn, h[result].inner)))
         IN Ret(a.heap, a.ref, <<Call("fn", fn, h[result].inner)>>)
    ELSE Ret(h, result, <<>>)

mapErr(h, result, fn) ==
  IF h[result].kind = "err"
    THEN LET a == Alloc(h, PlainObj("err", ApplyFn(fn, h[result].inner)))
         IN Ret(a.heap, a.ref, <<Call("fn", fn, h[result].inner)>>)
    ELSE Ret(h, result, <<>>)

inspect(h, result, fn) ==
  IF h[result].kind = "ok"
    THEN Ret(h, result, <<Call("fn", fn, h[result].inner)>>)
    ELSE Ret(h, result, <<>>)

inspectErr(h, result, fn) ==
  IF h[result].kind = "err"
    THEN Ret(h, result, <<Call("fn", fn, h[result].inner)>>)
    ELSE Ret(h, result, <<>>)

\* a slip: expect throws a fixed message instead of the caller's
expect_fixedMessage(h, result, message) ==
  IF h[result].kind = "ok" THEN Val(h, h[result].inner, <<>>)
                           ELSE Throw(h, "Called expect on an Err value", <<>>)

expect(h, result, message) ==
  IF h[result].kind = "ok" THEN Val(h, h[result].inner, <<>>)
                           ELSE Throw(h, message, <<>>)

unwrap(h, result) ==
  IF h[result].kind = "ok" THEN Val(h, h[result].inner, <<>>)
                           ELSE Throw(h, "Called unwrap on an Err value", <<>>)

\* a slip: unwrapOr falls back to the default for a falsy payload as well
unwrapOr_truthyPayload(h, result, defaultValue) ==
  IF h[result].kind = "ok" /\ h[result].inner # 0
    THEN Val(h, h[result].inner, <<>>)
    ELSE Val(h, defaultValue, <<>>)

unwrapOr(h, result, defaultValue) ==
  IF h[result].kind = "ok" THEN Val(h, h[result].inner, <<>>)
                           ELSE Val(h, defaultValue, <<>>)

unwrapOrElse(h, result, fn) ==
  IF h[result].kind = "ok"
    THEN Val(h, h[result].inner, <<>>)
    ELSE Val(h, ApplyFn(fn, h[result].inner),
             <<Call("fn", fn, h[result].inner)>>)

expectErr(h, result, message) ==
  IF h[result].kind = "err" THEN Val(h, h[result].inner, <<>>)
                            ELSE Throw(h, message, <<>>)

unwrapErr(h, result) ==
  IF h[result].kind = "err" THEN Val(h, h[result].inner, <<>>)
                            ELSE Throw(h, "Called unwrapErr on an Ok value", <<>>)

\* a slip: and chooses as or does
and_choosesAsOr(h, result, other) ==
  IF h[result].kind = "ok" THEN Ret(h, result, <<>>) ELSE Ret(h, other, <<>>)

and(h, result, other) ==
  IF h[result].kind = "ok" THEN Ret(h, other, <<>>) ELSE Ret(h, result, <<>>)

\* a slip: andThen calls fn but returns the Result it was given
andThenBy_returnsResult(h, result, k) ==
  IF h[result].kind = "ok"
    THEN LET a == k[h[result].inner] IN Ret(a.heap, result, a.calls)
    ELSE Ret(h, result, <<>>)

\* andThen(result, fn) for a callback fn given by its behaviour k in heap h
\* (fn may be any function, such as v => andThen(f(v), g))
andThenBy(h, result, k) ==
  IF h[result].kind = "ok"
    THEN LET a == k[h[result].inner] IN Ret(a.heap, a.ref, a.calls)
    ELSE Ret(h, result, <<>>)

\* a slip: andThen calls fn but returns the Result it was given
andThen_dropsResult(h, result, fn) ==
  IF h[result].kind = "ok"
    THEN LET a == CallResultFn(h, fn, h[result].inner)
         IN Ret(a.heap, result, <<Call("fn", fn, h[result].inner)>>)
    ELSE Ret(h, result, <<>>)

\* andThen(result, fn) for one of the caller's named callbacks
andThen(h, result, fn) == andThenBy(h, result, NamedResultFn(h, fn))

\* a slip: or also wants the payload of an ok value to be truthy
or_truthyPayload(h, result, other) ==
  IF h[result].kind = "ok" /\ h[result].inner # 0
    THEN Ret(h, result, <<>>)
    ELSE Ret(h, other, <<>>)

or(h, result, other) ==
  IF h[result].kind = "ok" THEN Ret(h, result, <<>>) ELSE Ret(h, other, <<>>)

\* a slip: orElse tests for the wrong tag
orElse_wrongTag(h, result, fn) ==
  IF h[result].kind = "err"
    THEN Ret(h, result, <<>>)
    ELSE LET a == CallResultFn(h, fn, h[result].inner)
         IN Ret(a.heap, a.ref, <<Call("fn", fn, h[result].inner)>>)

orElse(h, result, fn) ==
  IF h[result].kind = "ok"
    THEN Ret(h, result, <<>>)
    ELSE LET a == CallResultFn(h, fn, h[result].inner)
         IN Ret(a.heap, a.ref, <<Call("fn", fn, h[result].inner)>>)

(* ---------------------------- result-class.ts -------------------------- *)

\* Ok.isOk / Ok.isErr / Err.isOk / Err.isErr
Ok_isOk == TRUE

Ok_isErr == FALSE

Err_isOk == FALSE

\* a slip: Err.isErr answers like Ok.isErr
Err_isErr_copied == FALSE

Err_isErr == TRUE

\* this.isOk() and this.isErr(), dispatched on the class of the receiver
Res_isOk(h, this) == IF h[this].cls = "Ok" THEN Ok_isOk ELSE Err_isOk

Res_isErr(h, this) == IF h[this].cls = "Ok" THEN Ok_isErr ELSE Err_isErr

\* a slip: Ok.toJSON writes the payload under the name the tagged value uses
Ok_toJSON_taggedShape(h, this) ==
  Obj(h, ObjectLiteral([kind |-> "ok", inner |-> h[this].value]), <<>>)

Ok_toJSON(h, this) ==
  Obj(h, ObjectLiteral([kind |-> "ok", value |-> h[this].value]), <<>>)

Err_toJSON(h, this) ==
  Obj(h, ObjectLiteral([kind |-> "err", error |-> h[this].error]), <<>>)

\* this.toJSON(): the method of the receiver's class
Res_toJSON(h, this) ==
  IF h[this].cls = "Ok" THEN Ok_toJSON(h, this) ELSE Err_toJSON(h, this)

Res_ok(h, value) == Alloc(h, OkObj(value))

Res_err(h, error) == Alloc(h, ErrObj(error))

\* a slip: Res.from does not look at the tag
Res_from_alwaysOk(h, result) == Res_ok(h, h[result].inner)

\* a slip: Res.from tests for the wrong tag
Res_from_swapped(h, result) ==
  IF h[result].kind = "err" THEN Res_ok(h, h[result].inner)
                            ELSE Res_err(h, h[result].inner)

Res_from(h, result) ==
  IF h[result].kind = "ok" THEN Res_ok(h, h[result].inner)
                           ELSE Res_err(h, h[result].inner)

\* a Res-returning callback of the class API builds with Res.ok / Res.err
\* The tagged value a caller rebuilds from a facade with its accessors:
\* this.isOk() ? ok(this.value) : err(this.error)
ToResult(h, this) ==
  IF Res_isOk(h, this) THEN ok(h, h[this].value) ELSE err(h, h[this].error)

CallResFn(h, fn, x) ==
  LET d == ApplyResultFn(fn, x)
  IN IF d.kind = "ok" THEN Res_ok(h, d.inner) ELSE Res_err(h, d.inner)

\* the behaviour of the callback named fn of the class API, called in heap h
NamedResFn(h, fn) ==
  [x \in Values |->
     LET a == CallResFn(h, fn, x)
     IN [heap |-> a.heap, ref |-> a.ref, calls |-> <<Call("fn", fn, x)>>]]

Res_isOkAnd(h, this, predicate) ==
  IF Res_isOk(h, this)
    THEN Bool(h, ApplyPred(predicate, h[this].value),
              <<Call("predicate", predicate, h[this].value)>>)
    ELSE Bool(h, FALSE, <<>>)

Res_isErrAnd(h, this, predicate) ==
  IF Res_isErr(h, this)
    THEN Bool(h, ApplyPred(predicate, h[this].error),
              <<Call("predicate", predicate, h[this].error)>>)
    ELSE Bool(h, FALSE, <<>>)

Res_okMethod(h, this) ==
  IF Res_isOk(h, this) THEN Val(h, h[this].value, <<>>)
                       ELSE Val(h, Undefined, <<>>)

\* a slip: err() reads the accessor of the other variant
Res_errMethod_wrongAccessor(h, this) ==
  IF Res_isErr(h, this) THEN Val(h, h[this].value, <<>>)
                        ELSE Val(h, Undefined, <<>>)

Res_errMethod(h, this) ==
  IF Res_isErr(h, this) THEN Val(h, h[this].error, <<>>)
                        ELSE Val(h, Undefined, <<>>)

\* a slip: map on an Err builds the new Err from the accessor of an Ok
Res_map_wrongAccessor(h, this, fn) ==
  IF Res_isOk(h, this)
    THEN LET a == Alloc(h, OkObj(ApplyFn(fn, h[this].value)))
         IN Ret(a.heap, a.ref, <<Call("fn", fn, h[this].value)>>)
    ELSE LET a == Alloc(h, ErrObj(h[this].value))
         IN Ret(a.heap, a.ref, <<>>)

Res_map(h, this, fn) ==
  IF Res_isOk(h, this)
    THEN LET a == Alloc(h, OkObj(ApplyFn(fn, h[this].value)))
         IN Ret(a.heap, a.ref, <<Call("fn", fn, h[this].value)>>)
    ELSE LET a == Alloc(h, ErrObj(h[this].error))
         IN Ret(a.heap, a.ref, <<>>)

Res_mapOr(h, this, defaultValue, fn) ==
  IF Res_isOk(h, this)
    THEN Val(h, ApplyFn(fn, h[this].value), <<Call("fn", fn, h[this].value)>>)
    ELSE Val(h, defaultValue, <<>>)

Res_mapOrElse(h, this, fallback, fn) ==
  IF Res_isOk(h, this)
    THEN Val(h, ApplyFn(fn, h[this].value), <<Call("fn", fn, h[this].value)>>)
    ELSE Val(h, ApplyFn(fallback, h[this].error),
             <<Call("fallback", fallback, h[this].error)>>)

\* a slip: mapErr on an Ok builds the new Ok from the accessor of an Err
Res_mapErr_wrongAccessor(h, this, fn) ==
  IF Res_isErr(h, this)
    THEN LET a == Alloc(h, ErrObj(ApplyFn(fn, h[this].error)))
         IN Ret(a.heap, a.ref, <<Call("fn", fn, h[this].error)>>)
    ELSE LET a == Alloc(h, OkObj(h[this].error))
         IN Ret(a.heap, a.ref, <<>>)

Res_mapErr(h, this, fn) ==
  IF Res_isErr(h, this)
    THEN LET a == Alloc(h, ErrObj(ApplyFn(fn, h[this].error)))
         IN Ret(a.heap, a.ref, <<Call("fn", fn, h[this].error)>>)
    ELSE LET a == Alloc(h, OkObj(h[this].value))
         IN Ret(a.heap, a.ref, <<>>)

\* a slip: inspect calls fn without testing the variant
Res_inspect_unguarded(h, this, fn) ==
  Ret(h, this, <<Call("fn", fn, h[this].value)>>)

Res_inspect(h, this, fn) ==
  IF Res_isOk(h, this)
    THEN Ret(h, this, <<Call("fn", fn, h[this].value)>>)
    ELSE Ret(h, this, <<>>)

\* a slip: inspectErr answers with a new Err, as the chaining methods do
Res_inspectErr_newInstance(h, this, fn) ==
  IF Res_isErr(h, this)
    THEN LET a == Alloc(h, ErrObj(h[this].error))
         IN Ret(a.heap, a.ref, <<Call("fn", fn, h[this].error)>>)
    ELSE Ret(h, this, <<>>)

Res_inspectErr(h, this, fn) ==
  IF Res_isErr(h, this)
    THEN Ret(h, this, <<Call("fn", fn, h[this].error)>>)
    ELSE Ret(h, this, <<>>)

Res_expect(h, this, message) ==
  IF Res_isOk(h, this) THEN Val(h, h[this].value, <<>>)
                       ELSE Throw(h, message, <<>>)

Res_unwrap(h, this) ==
  IF Res_isOk(h, this) THEN Val(h, h[this].value, <<>>)
                       ELSE Throw(h, "Called unwrap on an Err value", <<>>)

Res_unwrapOr(h, this, defaultValue) ==
  IF Res_isOk(h, this) THEN Val(h, h[this].value, <<>>)
                       ELSE Val(h, defaultValue, <<>>)

\* a slip: unwrapOrElse throws on an Err, as unwrap does, instead of calling fn
Res_unwrapOrElse_throws(h, this, fn) ==
  IF Res_isOk(h, this) THEN Val(h, h[this].value, <<>>)
                       ELSE Throw(h, "Called unwrapOrElse on an Err value", <<>>)

Res_unwrapOrElse(h, this, fn) ==
  IF Res_isOk(h, this)
    THEN Val(h, h[this].value, <<>>)
    ELSE Val(h, ApplyFn(fn, h[this].error), <<Call("fn", fn, h[this].error)>>)

Res_expectErr(h, this, message) ==
  IF Res_isErr(h, this) THEN Val(h, h[this].error, <<>>)
                        ELSE Throw(h, message, <<>>)

\* a slip: unwrapErr throws the message of unwrap
Res_unwrapErr_copiedMessage(h, this) ==
  IF Res_isErr(h, this) THEN Val(h, h[this].error, <<>>)
                        ELSE Throw(h, "Called unwrap on an Err value", <<>>)

Res_unwrapErr(h, this) ==
  IF Res_isErr(h, this) THEN Val(h, h[this].error, <<>>)
                        ELSE Throw(h, "Called unwrapErr on an Ok value", <<>>)

\* a slip: and copies the accessor of the other variant into the new Err
Res_and_wrongAccessor(h, this, other) ==
  IF Res_isOk(h, this)
    THEN Ret(h, other, <<>>)
    ELSE LET a == Alloc(h, ErrObj(h[this].value)) IN Ret(a.heap, a.ref, <<>>)

Res_and(h, this, other) ==
  IF Res_isOk(h, this)
    THEN Ret(h, other, <<>>)
    ELSE LET a == Alloc(h, ErrObj(h[this].error)) IN Ret(a.heap, a.ref, <<>>)

\* this.andThen(fn) for a callback fn given by its behaviour k in heap h
Res_andThenBy(h, this, k) ==
  IF Res_isOk(h, this)
    THEN LET a == k[h[this].value] IN Ret(a.heap, a.ref, a.calls)
    ELSE LET a == Alloc(h, ErrObj(h[this].error)) IN Ret(a.heap, a.ref, <<>>)

\* this.andThen(fn) for one of the caller's named callbacks
Res_andThen(h, this, fn) == Res_andThenBy(h, this, NamedResFn(h, fn))

\* a slip: or hands back the receiver instead of a new Ok
Res_or_returnsThis(h, this, other) ==
  IF Res_isOk(h, this) THEN Ret(h, this, <<>>) ELSE Ret(h, other, <<>>)

Res_or(h, this, other) ==
  IF Res_isOk(h, this)
    THEN LET a == Alloc(h, OkObj(h[this].value)) IN Ret(a.heap, a.ref, <<>>)
    ELSE Ret(h, other, <<>>)

Res_orElse(h, this, fn) ==
  IF Res_isOk(h, this)
    THEN LET a == Alloc(h, OkObj(h[this].value)) IN Ret(a.heap, a.ref, <<>>)
    ELSE LET a == CallResFn(h, fn, h[this].error)
         IN Ret(a.heap, a.ref, <<Call("fn", fn, h[this].error)>>)

(* ------------------------------- the state ----------------------------- *)

\* the arguments of a call besides the Result itself
NoArgs ==
  [fn |-> "", fn2 |-> "", other |-> Null, value |-> Undefined,
   dflt |-> Undefined, msg |-> ""]

\* the plain Results and the Res instances allocated so far
PlainRefs == {i \in DOMAIN heap : heap[i].cls = "Object"}

ResRefs == {i \in DOMAIN heap : heap[i].cls \in {"Ok", "Err"}}

\* the caller is between two statements and may make a call
AtCaller == last.op = "idle" /\ Len(heap) < MaxObjs

\* The call `op` on `recv` with `args` had the outcome `out`: the heap becomes
\* the heap after the call and `last` records the call, the heap before it
\* and what it returned or threw.
Do(op, recv, args, out) ==
  /\ Len(out.heap) <= MaxObjs
  /\ heap' = out.heap
  /\ last' = [op |-> op, recv |-> recv, args |-> args, pre |-> heap,
              t |-> out.t, ref |-> out.ref, val |-> out.val, flag |-> out.flag,
              message |-> out.message, obj |-> out.obj, calls |-> out.calls]

\* no call is pending: the caller is between two statements
Idle ==
  [op |-> "idle", recv |-> Null, args |-> NoArgs, pre |-> <<>>,
   t |-> "none", ref |-> Null, val |-> Undefined, flag |-> FALSE,
   message |-> "", obj |-> NoObj, calls |-> <<>>]

Init ==
  /\ heap = <<>>
  /\ last = Idle

\* the caller has seen the outcome of its call and goes on to its next statement
Continue ==
  /\ last.op # "idle"
  /\ last' = Idle
  /\ UNCHANGED heap

(* --------------------- actions: constructing Results ------------------- *)

Call_ok ==
  /\ AtCaller
  /\ \E value \in Payload :
       LET a == ok(heap, value)
       IN Do("ok", Null, [NoArgs EXCEPT !.value = value],
             Ret(a.heap, a.ref, <<>>))

Call_err ==
  /\ AtCaller
  /\ \E value \in Payload :
       LET a == err(heap, value)
       IN Do("err", Null, [NoArgs EXCEPT !.value = value],
             Ret(a.heap, a.ref, <<>>))

Call_Res_ok ==
  /\ AtCaller
  /\ \E value \in Payload :
       LET a == Res_ok(heap, value)
       IN Do("Res.ok", Null, [NoArgs EXCEPT !.value = value],
             Ret(a.heap, a.ref, <<>>))

Call_Res_err ==
  /\ AtCaller
  /\ \E error \in Payload :
       LET a == Res_err(heap, error)
       IN Do("Res.err", Null, [NoArgs EXCEPT !.value = error],
             Ret(a.heap, a.ref, <<>>))

Call_Res_from ==
  /\ AtCaller
  /\ \E result \in PlainRefs :
       LET a == Res_from(heap, result)
       IN Do("Res.from", result, NoArgs, Ret(a.heap, a.ref, <<>>))

(* ------------------- actions: the functional API ----------------------- *)

Call_match ==
  /\ AtCaller
  /\ \E result \in PlainRefs, onOk \in ValueFns, onErr \in ValueFns :
       Do("match", result, [NoArgs EXCEPT !.fn = onOk, !.fn2 = onErr],
          match(heap, result, onOk, onErr))

Call_isOk ==
  /\ AtCaller
  /\ \E result \in PlainRefs :
       Do("isOk", result, NoArgs,
          isOk(heap, result))

Call_isOkAnd ==
  /\ AtCaller
  /\ \E result \in PlainRefs, predicate \in PredFns :
       Do("isOkAnd", result, [NoArgs EXCEPT !.fn = predicate],
          isOkAnd(heap, result, predicate))

Call_isErr ==
  /\ AtCaller
  /\ \E result \in PlainRefs :
       Do("isErr", result, NoArgs,
          isErr(heap, result))

Call_isErrAnd ==
  /\ AtCaller
  /\ \E result \in PlainRefs, predicate \in PredFns :
       Do("isErrAnd", result, [NoArgs EXCEPT !.fn = predicate],
          isErrAnd(heap, result, predicate))

Call_resultOk ==
  /\ AtCaller
  /\ \E result \in PlainRefs :
       Do("resultOk", result, NoArgs,
          resultOk(heap, result))

Call_resultErr ==
  /\ AtCaller
  /\ \E result \in PlainRefs :
       Do("resultErr", result, NoArgs,
          resultErr(heap, result))

Call_map ==
  /\ AtCaller
  /\ \E result \in PlainRefs, fn \in ValueFns :
       Do("map", result, [NoArgs EXCEPT !.fn = fn],
          map(heap, result, fn))

Call_mapOr ==
  /\ AtCaller
  /\ \E result \in PlainRefs, defaultValue \in Payload, fn \in ValueFns :
       Do("mapOr", result, [NoArgs EXCEPT !.fn = fn, !.dflt = defaultValue],
          mapOr(heap, result, defaultValue, fn))

Call_mapOrElse ==
  /\ AtCaller
  /\ \E result \in PlainRefs, fallback \in ValueFns, fn \in ValueFns :
       Do("mapOrElse", result, [NoArgs EXCEPT !.fn = fn, !.fn2 = fallback],
          mapOrElse(heap, result, fallback, fn))

Call_mapErr ==
  /\ AtCaller
  /\ \E result \in PlainRefs, fn \in ValueFns :
       Do("mapErr", result, [NoArgs EXCEPT !.fn = fn],
          mapErr(heap, result, fn))

Call_inspect ==
  /\ AtCaller
  /\ \E result \in PlainRefs, fn \in ValueFns :
       Do("inspect", result, [NoArgs EXCEPT !.fn = fn],
          inspect(heap, result, fn))

Call_inspectErr ==
  /\ AtCaller
  /\ \E result \in PlainRefs, fn \in ValueFns :
       Do("inspectErr", result, [NoArgs EXCEPT !.fn = fn],
          inspectErr(heap, result, fn))

Call_expect ==
  /\ AtCaller
  /\ \E result \in PlainRefs, message \in Messages :
       Do("expect", result, [NoArgs EXCEPT !.msg = message],
          expect(heap, result, message))

Call_unwrap ==
  /\ AtCaller
  /\ \E result \in PlainRefs :
       Do("unwrap", result, NoArgs,
          unwrap(heap, result))

Call_unwrapOr ==
  /\ AtCaller
  /\ \E result \in PlainRefs, defaultValue \in Payload :
       Do("unwrapOr", result, [NoArgs EXCEPT !.dflt = defaultValue],
          unwrapOr(heap, result, defaultValue))

Call_unwrapOrElse ==
  /\ AtCaller
  /\ \E result \in PlainRefs, fn \in ValueFns :
       Do("unwrapOrElse", result, [NoArgs EXCEPT !.fn = fn],
          unwrapOrElse(heap, result, fn))

Call_expectErr ==
  /\ AtCaller
  /\ \E result \in PlainRefs, message \in Messages :
       Do("expectErr", result, [NoArgs EXCEPT !.msg = message],
          expectErr(heap, result, message))

Call_unwrapErr ==
  /\ AtCaller
  /\ \E result \in PlainRefs :
       Do("unwrapErr", result, NoArgs,
          unwrapErr(heap, result))

Call_and ==
  /\ AtCaller
  /\ \E result \in PlainRefs, other \in PlainRefs :
       Do("and", result, [NoArgs EXCEPT !.other = other],
          and(heap, result, other))

Call_andThen ==
  /\ AtCaller
  /\ \E result \in PlainRefs, fn \in ResultFns :
       Do("andThen", result, [NoArgs EXCEPT !.fn = fn],
          andThen(heap, result, fn))

Call_or ==
  /\ AtCaller
  /\ \E result \in PlainRefs, other \in PlainRefs :
       Do("or", result, [NoArgs EXCEPT !.other = other],
          or(heap, result, other))

Call_orElse ==
  /\ AtCaller
  /\ \E result \in PlainRefs, fn \in ResultFns :
       Do("orElse", result, [NoArgs EXCEPT !.fn = fn],
          orElse(heap, result, fn))

(* --------------------- actions: the Res methods ------------------------ *)

Call_Res_isOk ==
  /\ AtCaller
  /\ \E this \in ResRefs :
       Do("Res.isOk", this, NoArgs, Bool(heap, Res_isOk(heap, this), <<>>))

Call_Res_isOkAnd ==
  /\ AtCaller
  /\ \E this \in ResRefs, predicate \in PredFns :
       Do("Res.isOkAnd", this, [NoArgs EXCEPT !.fn = predicate],
          Res_isOkAnd(heap, this, predicate))

Call_Res_isErr ==
  /\ AtCaller
  /\ \E this \in ResRefs :
       Do("Res.isErr", this, NoArgs, Bool(heap, Res_isErr(heap, this), <<>>))

Call_Res_isErrAnd ==
  /\ AtCaller
  /\ \E this \in ResRefs, predicate \in PredFns :
       Do("Res.isErrAnd", this, [NoArgs EXCEPT !.fn = predicate],
          Res_isErrAnd(heap, this, predicate))

Call_Res_okMethod ==
  /\ AtCaller
  /\ \E this \in ResRefs :
       Do("Res.ok()", this, NoArgs,
          Res_okMethod(heap, this))

Call_Res_errMethod ==
  /\ AtCaller
  /\ \E this \in ResRefs :
       Do("Res.err()", this, NoArgs,
          Res_errMethod(heap, this))

Call_Res_map ==
  /\ AtCaller
  /\ \E this \in ResRefs, fn \in ValueFns :
       Do("Res.map", this, [NoArgs EXCEPT !.fn = fn],
          Res_map(heap, this, fn))

Call_Res_mapOr ==
  /\ AtCaller
  /\ \E this \in ResRefs, defaultValue \in Payload, fn \in ValueFns :
       Do("Res.mapOr", this, [NoArgs EXCEPT !.fn = fn, !.dflt = defaultValue],
          Res_mapOr(heap, this, defaultValue, fn))

Call_Res_mapOrElse ==
  /\ AtCaller
  /\ \E this \in ResRefs, fallback \in ValueFns, fn \in ValueFns :
       Do("Res.mapOrElse", this, [NoArgs EXCEPT !.fn = fn, !.fn2 = fallback],
          Res_mapOrElse(heap, this, fallback, fn))

Call_Res_mapErr ==
  /\ AtCaller
  /\ \E this \in ResRefs, fn \in ValueFns :
       Do("Res.mapErr", this, [NoArgs EXCEPT !.fn = fn],
          Res_mapErr(heap, this, fn))

Call_Res_inspect ==
  /\ AtCaller
  /\ \E this \in ResRefs, fn \in ValueFns :
       Do("Res.inspect", this, [NoArgs EXCEPT !.fn = fn],
          Res_inspect(heap, this, fn))

Call_Res_inspectErr ==
  /\ AtCaller
  /\ \E this \in ResRefs, fn \in ValueFns :
       Do("Res.inspectErr", this, [NoArgs EXCEPT !.fn = fn],
          Res_inspectErr(heap, this, fn))

Call_Res_expect ==
  /\ AtCaller
  /\ \E this \in ResRefs, message \in Messages :
       Do("Res.expect", this, [NoArgs EXCEPT !.msg = message],
          Res_expect(heap, this, message))

Call_Res_unwrap ==
  /\ AtCaller
  /\ \E this \in ResRefs :
       Do("Res.unwrap", this, NoArgs,
          Res_unwrap(heap, this))

Call_Res_unwrapOr ==
  /\ AtCaller
  /\ \E this \in ResRefs, defaultValue \in Payload :
       Do("Res.unwrapOr", this, [NoArgs EXCEPT !.dflt = defaultValue],
          Res_unwrapOr(heap, this, defaultValue))

Call_Res_unwrapOrElse ==
  /\ AtCaller
  /\ \E this \in ResRefs, fn \in ValueFns :
       Do("Res.unwrapOrElse", this, [NoArgs EXCEPT !.fn = fn],
          Res_unwrapOrElse(heap, this, fn))

Call_Res_expectErr ==
  /\ AtCaller
  /\ \E this \in ResRefs, message \in Messages :
       Do("Res.expectErr", this, [NoArgs EXCEPT !.msg = message],
          Res_expectErr(heap, this, message))

Call_Res_unwrapErr ==
  /\ AtCaller
  /\ \E this \in ResRefs :
       Do("Res.unwrapErr", this, NoArgs,
          Res_unwrapErr(heap, this))

Call_Res_toJSON ==
  /\ AtCaller
  /\ \E this \in ResRefs :
       Do("Res.toJSON", this, NoArgs, Res_toJSON(heap, this))

Call_Res_and ==
  /\ AtCaller
  /\ \E this \in ResRefs, other \in ResRefs :
       Do("Res.and", this, [NoArgs EXCEPT !.other = other],
          Res_and(heap, this, other))

Call_Res_andThen ==
  /\ AtCaller
  /\ \E this \in ResRefs, fn \in ResultFns :
       Do("Res.andThen", this, [NoArgs EXCEPT !.fn = fn],
          Res_andThen(heap, this, fn))

Call_Res_or ==
  /\ AtCaller
  /\ \E this \in ResRefs, other \in ResRefs :
       Do("Res.or", this, [NoArgs EXCEPT !.other = other],
          Res_or(heap, this, other))

Call_Res_orElse ==
  /\ AtCaller
  /\ \E this \in ResRefs, fn \in ResultFns :
       Do("Res.orElse", this, [NoArgs EXCEPT !.fn = fn],
          Res_orElse(heap, this, fn))

Next ==
  \/ Continue
  \/ Call_ok
  \/ Call_err
  \/ Call_Res_ok
  \/ Call_Res_err
  \/ Call_Res_from
  \/ Call_match
  \/ Call_isOk
  \/ Call_isOkAnd
  \/ Call_isErr
  \/ Call_isErrAnd
  \/ Call_resultOk
  \/ Call_resultErr
  \/ Call_map
  \/ Call_mapOr
  \/ Call_mapOrElse
  \/ Call_mapErr
  \/ Call_inspect
  \/ Call_inspectErr
  \/ Call_expect
  \/ Call_unwrap
  \/ Call_unwrapOr
  \/ Call_unwrapOrElse
  \/ Call_expectErr
  \/ Call_unwrapErr
  \/ Call_and
  \/ Call_andThen
  \/ Call_or
  \/ Call_orElse
  \/ Call_Res_isOk
  \/ Call_Res_isOkAnd
  \/ Call_Res_isErr
  \/ Call_Res_isErrAnd
  \/ Call_Res_okMethod
  \/ Call_Res_errMethod
  \/ Call_Res_map
  \/ Call_Res_mapOr
  \/ Call_Res_mapOrElse
  \/ Call_Res_mapErr
  \/ Call_Res_inspect
  \/ Call_Res_inspectErr
  \/ Call_Res_expect
  \/ Call_Res_unwrap
  \/ Call_Res_unwrapOr
  \/ Call_Res_unwrapOrElse
  \/ Call_Res_expectErr
  \/ Call_Res_unwrapErr
  \/ Call_Res_toJSON
  \/ Call_Res_and
  \/ Call_Res_andThen
  \/ Call_Res_or
  \/ Call_Res_orElse

Spec == Init /\ [][Next]_vars

(* ------------------------- reading an outcome -------------------------- *)

\* the Result the last call was made on, as it was before the call
Recv == last.pre[last.recv]

\* the `other` operand of the last call, as it was before the call
Other == last.pre[last.args.other]

\* the Result the last call returned
Returned == heap[last.ref]

\* tag and payload of a Result of either API
TagOf(o) ==
  CASE o.cls = "Object" -> o.kind
    [] o.cls = "Ok"     -> "ok"
    [] o.cls = "Err"    -> "err"

PayloadOf(o) ==
  CASE o.cls = "Object" -> o.inner
    [] o.cls = "Ok"     -> o.value
    [] o.cls = "Err"    -> o.error

\* the last call returned the very Result it was made on, contents untouched
ReturnedRecvUnchanged ==
  /\ last.t = "ref"
  /\ last.ref = last.recv
  /\ Returned = Recv

(* ------------------------------- claims -------------------------------- *)

\* C1: every Result built by ok / err, every facade built by Res.ok / Res.err /
\* Res.from and every Result returned by a combinator answers true to exactly
\* one of isOk and isErr: never both, never neither.
C1_ExactlyOneOfIsOkIsErr ==
  /\ \A r \in PlainRefs : isOk(heap, r).flag # isErr(heap, r).flag
  /\ \A r \in ResRefs : Res_isOk(heap, r) # Res_isErr(heap, r)
  /\ last.op \in {"isOk", "isErr", "Res.isOk", "Res.isErr"} =>
       /\ last.t = "bool"
       /\ last.flag = (TagOf(Recv) = (IF last.op \in {"isOk", "Res.isOk"}
                                        THEN "ok" ELSE "err"))

\* C1 witness: orElse on an Err facade recovered into an Ok facade, with a
\* plain Result in the heap as well.
C1_Witness ==
  /\ last.op = "Res.orElse"
  /\ Recv.cls = "Err"
  /\ Returned.cls = "Ok"
  /\ PlainRefs # {}

\* C2: map(r, f) on ok(v) is an ok value holding f(v); on err(e) it is r
\* itself, an err value still holding e.
C2_Map ==
  last.op = "map" =>
    IF Recv.kind = "ok"
      THEN /\ last.t = "ref"
           /\ Returned.kind = "ok"
           /\ Returned.inner = ApplyFn(last.args.fn, Recv.inner)
      ELSE /\ ReturnedRecvUnchanged
           /\ Returned.kind = "err"

\* C2 witness: map changed the payload of an ok value.
C2_Witness ==
  /\ last.op = "map"
  /\ Recv.kind = "ok"
  /\ Returned.inner # Recv.inner

\* C3: mapErr(r, f) on err(e) is an err value holding f(e); on ok(v) it is r
\* itself, an ok value still holding v.
C3_MapErr ==
  last.op = "mapErr" =>
    IF Recv.kind = "err"
      THEN /\ last.t = "ref"
           /\ Returned.kind = "err"
           /\ Returned.inner = ApplyFn(last.args.fn, Recv.inner)
      ELSE /\ ReturnedRecvUnchanged
           /\ Returned.kind = "ok"

\* C3 witness: mapErr changed the payload of an err value.
C3_Witness ==
  /\ last.op = "mapErr"
  /\ Recv.kind = "err"
  /\ Returned.inner # Recv.inner

\* C4: andThen(r, fn) on ok(v) is exactly the Result fn(v) built, ok or err;
\* on err it is r itself with its error payload.
C4_AndThen ==
  last.op = "andThen" =>
    IF Recv.kind = "ok"
      THEN /\ last.t = "ref"
           /\ Returned.kind = ApplyResultFn(last.args.fn, Recv.inner).kind
           /\ Returned.inner = ApplyResultFn(last.args.fn, Recv.inner).inner
      ELSE /\ ReturnedRecvUnchanged
           /\ Returned.kind = "err"

\* C4 witness: the callback's error propagated out of andThen on an ok value.
C4_Witness ==
  /\ last.op = "andThen"
  /\ Recv.kind = "ok"
  /\ Returned.kind = "err"

\* C5: orElse(r, fn) on ok is r itself and fn is not invoked; on err(e) it is
\* exactly the Result fn(e) built, ok (recovery) or err (a new error).
C5_OrElse ==
  last.op = "orElse" =>
    IF Recv.kind = "ok"
      THEN /\ ReturnedRecvUnchanged
           /\ last.calls = <<>>
      ELSE /\ last.t = "ref"
           /\ Returned.kind = ApplyResultFn(last.args.fn, Recv.inner).kind
           /\ Returned.inner = ApplyResultFn(last.args.fn, Recv.inner).inner

\* C5 witness: orElse recovered an err value into an ok value.
C5_Witness ==
  /\ last.op = "orElse"
  /\ Recv.kind = "err"
  /\ Returned.kind = "ok"

\* C6: and(r, other) is other when r is ok and r when r is err; or(r, other)
\* is r when r is ok and other when r is err: the choice follows the tag of r
\* alone, whatever other's tag and whatever the payloads (falsy ones too).
C6_AndOrChooseByFirstTag ==
  /\ last.op = "and" =>
       /\ last.t = "ref"
       /\ last.ref = (IF Recv.kind = "ok" THEN last.args.other ELSE last.recv)
       /\ Returned = (IF Recv.kind = "ok" THEN Other ELSE Recv)
  /\ last.op = "or" =>
       /\ last.t = "ref"
       /\ last.ref = (IF Recv.kind = "ok" THEN last.recv ELSE last.args.other)
       /\ Returned = (IF Recv.kind = "ok" THEN Recv ELSE Other)

\* C6 witness: or on an ok value with the falsy payload 0 and an err other
\* with a truthy payload still chose the first operand.
C6_Witness ==
  /\ last.op = "or"
  /\ Recv.kind = "ok"
  /\ Recv.inner = 0
  /\ Other.kind = "err"
  /\ Other.inner # 0
  /\ last.ref = last.recv
  /\ last.ref # last.args.other

\* C7: map, andThen and inspect make no call to their callback on an err
\* Result, and mapErr, inspectErr and orElse make none on an ok Result, as
\* functions and as Res methods.
C7_ShortCircuit ==
  /\ ( /\ last.op \in {"map", "andThen", "inspect",
                       "Res.map", "Res.andThen", "Res.inspect"}
       /\ TagOf(Recv) = "err" ) => Len(last.calls) = 0
  /\ ( /\ last.op \in {"mapErr", "inspectErr", "orElse",
                       "Res.mapErr", "Res.inspectErr", "Res.orElse"}
       /\ TagOf(Recv) = "ok" ) => Len(last.calls) = 0

\* C7 witness: the Res method inspect was called on an Err and made no call.
C7_Witness ==
  /\ last.op = "Res.inspect"
  /\ Recv.cls = "Err"
  /\ last.calls = <<>>

\* the operations that take one callback for the ok variant, and for the err one
OkCallbackOps ==
  {"map", "mapOr", "inspect", "andThen",
   "Res.map", "Res.mapOr", "Res.inspect", "Res.andThen"}

ErrCallbackOps ==
  {"mapErr", "inspectErr", "orElse", "unwrapOrElse",
   "Res.mapErr", "Res.inspectErr", "Res.orElse", "Res.unwrapOrElse"}

\* C8: a callback whose variant is the one the Result's tag selects is invoked
\* exactly once in the call, with the Result's payload as its argument.
C8_SelectedCallbackOnce ==
  /\ (last.op \in OkCallbackOps /\ TagOf(Recv) = "ok") =>
       last.calls = <<Call("fn", last.args.fn, PayloadOf(Recv))>>
  /\ (last.op \in ErrCallbackOps /\ TagOf(Recv) = "err") =>
       last.calls = <<Call("fn", last.args.fn, PayloadOf(Recv))>>
  /\ (last.op \in {"isOkAnd", "Res.isOkAnd"} /\ TagOf(Recv) = "ok") =>
       last.calls = <<Call("predicate", last.args.fn, PayloadOf(Recv))>>
  /\ (last.op \in {"isErrAnd", "Res.isErrAnd"} /\ TagOf(Recv) = "err") =>
       last.calls = <<Call("predicate", last.args.fn, PayloadOf(Recv))>>
  /\ (last.op \in {"mapOrElse", "Res.mapOrElse"} /\ TagOf(Recv) = "ok") =>
       last.calls = <<Call("fn", last.args.fn, PayloadOf(Recv))>>
  /\ (last.op \in {"mapOrElse", "Res.mapOrElse"} /\ TagOf(Recv) = "err") =>
       last.calls = <<Call("fallback", last.args.fn2, PayloadOf(Recv))>>
  /\ (last.op = "match" /\ TagOf(Recv) = "ok") =>
       last.calls = <<Call("ok", last.args.fn, PayloadOf(Recv))>>
  /\ (last.op = "match" /\ TagOf(Recv) = "err") =>
       last.calls = <<Call("err", last.args.fn2, PayloadOf(Recv))>>

\* C8 witness: match on an err value called its err handler once with the
\* error payload, the two handlers being different callbacks.
C8_Witness ==
  /\ last.op = "match"
  /\ Recv.kind = "err"
  /\ last.args.fn # last.args.fn2
  /\ Len(last.calls) = 1
  /\ last.calls[1].arg = Recv.inner

\* C9: unwrap returns v on ok and throws "Called unwrap on an Err value" on
\* err; unwrapErr returns e on err and throws "Called unwrapErr on an Ok value"
\* on ok; the Res methods unwrap / unwrapErr do the same.
C9_UnwrapMessages ==
  /\ last.op \in {"unwrap", "Res.unwrap"} =>
       IF TagOf(Recv) = "ok"
         THEN last.t = "val" /\ last.val = PayloadOf(Recv)
         ELSE last.t = "throw" /\ last.message = "Called unwrap on an Err value"
  /\ last.op \in {"unwrapErr", "Res.unwrapErr"} =>
       IF TagOf(Recv) = "err"
         THEN last.t = "val" /\ last.val = PayloadOf(Recv)
         ELSE last.t = "throw" /\ last.message = "Called unwrapErr on an Ok value"

\* C9 witness: the Res method unwrapErr threw on an Ok.
C9_Witness ==
  /\ last.op = "Res.unwrapErr"
  /\ Recv.cls = "Ok"
  /\ last.t = "throw"

\* C10: expect(r, message) returns v on ok whatever the message and throws
\* message itself on err; expectErr(r, message) returns e on err and throws
\* message itself on ok.  Nothing of r's payload is in the message thrown.
C10_ExpectMessage ==
  /\ last.op = "expect" =>
       IF Recv.kind = "ok"
         THEN last.t = "val" /\ last.val = Recv.inner
         ELSE last.t = "throw" /\ last.message = last.args.msg
  /\ last.op = "expectErr" =>
       IF Recv.kind = "err"
         THEN last.t = "val" /\ last.val = Recv.inner
         ELSE last.t = "throw" /\ last.message = last.args.msg

\* C10 witness: expect threw the caller's non-empty message on an err value.
C10_Witness ==
  /\ last.op = "expect"
  /\ Recv.kind = "err"
  /\ last.t = "throw"
  /\ last.message = "custom message"

\* the calls that fail by design: extracting the payload of the other variant
FailingCall ==
  \/ last.op \in {"unwrap", "expect", "Res.unwrap", "Res.expect"}
       /\ TagOf(Recv) = "err"
  \/ last.op \in {"unwrapErr", "expectErr", "Res.unwrapErr", "Res.expectErr"}
       /\ TagOf(Recv) = "ok"

\* the calls that are made on a Result (all but the constructors)
CallOnResult == last.op \notin {"idle", "ok", "err", "Res.ok", "Res.err"}

\* C11: a call throws exactly when it is unwrap or expect on an err Result or
\* unwrapErr or expectErr on an ok Result; every other call, function or Res
\* method, on either variant, returns.
C11_OnlyUnwrapFamilyFails ==
  /\ CallOnResult =>
       /\ (last.t = "throw") = FailingCall
       /\ last.t \in {"ref", "val", "bool", "obj", "throw"}
  /\ last.op \in {"ok", "err", "Res.ok", "Res.err"} => last.t = "ref"

\* C11 witness: the Res method unwrapOrElse on an Err returned a value.
C11_Witness ==
  /\ last.op = "Res.unwrapOrElse"
  /\ Recv.cls = "Err"
  /\ last.t = "val"
  /\ Len(last.calls) = 1

\* C12: unwrapOr(r, d) returns v on ok(v) and d on err; unwrapOrElse(r, fn)
\* returns v on ok(v) without calling fn and fn(e) on err(e); neither throws.
C12_UnwrapOrAndOrElse ==
  /\ last.op = "unwrapOr" =>
       /\ last.t = "val"
       /\ last.val = (IF Recv.kind = "ok" THEN Recv.inner ELSE last.args.dflt)
  /\ last.op = "unwrapOrElse" =>
       /\ last.t = "val"
       /\ IF Recv.kind = "ok"
            THEN last.val = Recv.inner /\ last.calls = <<>>
            ELSE last.val = ApplyFn(last.args.fn, Recv.inner)

\* C12 witness: unwrapOr returned the falsy payload 0 of an ok value although
\* the default was another value.
C12_Witness ==
  /\ last.op = "unwrapOr"
  /\ Recv.kind = "ok"
  /\ Recv.inner = 0
  /\ last.args.dflt # 0
  /\ last.val = 0

\* C13: mapOr(r, d, f) returns f(v) on ok(v) and d on err without calling f;
\* mapOrElse(r, fallback, f) returns f(v) on ok(v) and fallback(e) on err(e),
\* and calls exactly one of the two callbacks, the other not at all.
C13_MapOrAndOrElse ==
  /\ last.op = "mapOr" =>
       /\ last.t = "val"
       /\ IF Recv.kind = "ok"
            THEN last.val = ApplyFn(last.args.fn, Recv.inner)
            ELSE last.val = last.args.dflt /\ last.calls = <<>>
  /\ last.op = "mapOrElse" =>
       /\ last.t = "val"
       /\ Len(last.calls) = 1
       /\ IF Recv.kind = "ok"
            THEN /\ last.val = ApplyFn(last.args.fn, Recv.inner)
                 /\ last.calls[1].role = "fn"
            ELSE /\ last.val = ApplyFn(last.args.fn2, Recv.inner)
                 /\ last.calls[1].role = "fallback"

\* C13 witness: mapOrElse on an err value returned what the fallback gives,
\* which is not what f would have given.
C13_Witness ==
  /\ last.op = "mapOrElse"
  /\ Recv.kind = "err"
  /\ last.val = ApplyFn(last.args.fn2, Recv.inner)
  /\ last.val # ApplyFn(last.args.fn, Recv.inner)

\* C14: isOkAnd(r, p) is true exactly when r is ok and p(v) is true, and p is
\* not called on err; isErrAnd(r, p) is true exactly when r is err and p(e) is
\* true, and p is not called on ok.  The Res methods do the same.
C14_IsOkAndIsErrAnd ==
  /\ last.op \in {"isOkAnd", "Res.isOkAnd"} =>
       /\ last.t = "bool"
       /\ last.flag = (TagOf(Recv) = "ok"
                         /\ ApplyPred(last.args.fn, PayloadOf(Recv)))
       /\ TagOf(Recv) = "err" => last.calls = <<>>
  /\ last.op \in {"isErrAnd", "Res.isErrAnd"} =>
       /\ last.t = "bool"
       /\ last.flag = (TagOf(Recv) = "err"
                         /\ ApplyPred(last.args.fn, PayloadOf(Recv)))
       /\ TagOf(Recv) = "ok" => last.calls = <<>>

\* C14 witness: isErrAnd on an ok value whose payload satisfies the predicate
\* is false and has not called the predicate.
C14_Witness ==
  /\ last.op = "isErrAnd"
  /\ Recv.kind = "ok"
  /\ ApplyPred(last.args.fn, Recv.inner)
  /\ last.flag = FALSE
  /\ last.calls = <<>>

\* C15: resultOk(r) returns the payload on ok and undefined on err, resultErr(r)
\* the payload on err and undefined on ok; the Res methods ok() and err() do
\* the same; none of them throws.
C15_ResultOkResultErr ==
  /\ last.op \in {"resultOk", "Res.ok()"} =>
       /\ last.t = "val"
       /\ last.val = (IF TagOf(Recv) = "ok" THEN PayloadOf(Recv) ELSE Undefined)
  /\ last.op \in {"resultErr", "Res.err()"} =>
       /\ last.t = "val"
       /\ last.val = (IF TagOf(Recv) = "err" THEN PayloadOf(Recv) ELSE Undefined)

\* C15 witness: the Res method err() on an Err returned its error payload.
C15_Witness ==
  /\ last.op = "Res.err()"
  /\ Recv.cls = "Err"
  /\ last.val = Recv.error
  /\ last.val # Undefined

\* C16: inspect(r, f) and inspectErr(r, f) return r itself, unchanged, on both
\* variants and whatever f returns; the Res methods inspect / inspectErr
\* return the receiver instance itself, whether the callback is called or not.
C16_InspectReturnsReceiver ==
  last.op \in {"inspect", "inspectErr", "Res.inspect", "Res.inspectErr"} =>
    /\ ReturnedRecvUnchanged
    /\ heap = last.pre

\* C16 witness: the Res method inspectErr called its callback on an Err and
\* returned the receiver.
C16_Witness ==
  /\ last.op = "Res.inspectErr"
  /\ Recv.cls = "Err"
  /\ Len(last.calls) = 1
  /\ last.ref = last.recv

\* C17: map(r, identity) and andThen(r, ok) have the tag and the payload of r,
\* for r ok or err and every payload.
C17_IdentityLaws ==
  ( \/ last.op = "map" /\ last.args.fn = "identity"
    \/ last.op = "andThen" /\ last.args.fn = "wrapOk" ) =>
      /\ last.t = "ref"
      /\ Returned.kind = Recv.kind
      /\ Returned.inner = Recv.inner

\* C17 witness: map with the identity on an ok value built a new object that
\* equals the old one in tag and payload.
C17_Witness ==
  /\ last.op = "map"
  /\ last.args.fn = "identity"
  /\ Recv.kind = "ok"
  /\ last.ref # last.recv
  /\ Returned = Recv

\* what Res.ok(x) and Res.err(x) build
BuiltByResOk(x) == LET a == Res_ok(<<>>, x) IN a.heap[a.ref]

BuiltByResErr(x) == LET a == Res_err(<<>>, x) IN a.heap[a.ref]

\* C18: Res.from(ok(x)) is an Ok that cannot be told from Res.ok(x): isOk is
\* true, isErr false and value is x; Res.from(err(x)) is an Err that cannot be
\* told from Res.err(x): isOk is false, isErr true and error is x.
C18_Bridging ==
  last.op = "Res.from" =>
    /\ last.t = "ref"
    /\ IF Recv.kind = "ok"
         THEN /\ Returned.cls = "Ok"
              /\ Res_isOk(heap, last.ref)
              /\ ~Res_isErr(heap, last.ref)
              /\ Returned.value = Recv.inner
              /\ Returned = BuiltByResOk(Recv.inner)
         ELSE /\ Returned.cls = "Err"
              /\ ~Res_isOk(heap, last.ref)
              /\ Res_isErr(heap, last.ref)
              /\ Returned.error = Recv.inner
              /\ Returned = BuiltByResErr(Recv.inner)

\* C18 witness: Res.from converted an err value with the falsy payload 0.
C18_Witness ==
  /\ last.op = "Res.from"
  /\ Recv.kind = "err"
  /\ Recv.inner = 0
  /\ Returned.cls = "Err"

\* variant and payload of the facade Res.from builds from the Result r
Image(h, r) ==
  LET a == Res_from(h, r)
  IN <<a.heap[a.ref].cls, a.heap[a.ref].value, a.heap[a.ref].error>>

\* the facade Res.from builds from the tagged value rebuilt from the facade f
RoundTrip(h, f) ==
  LET a == ToResult(h, f)
      b == Res_from(a.heap, a.ref)
  IN b.heap[b.ref]

\* C19: Res.from is a bijection on tag and payload.  Results that differ in
\* tag or payload become facades that differ in variant or payload; every
\* facade is the image of the tagged value rebuilt from its accessors, and of
\* no tagged value with another tag or payload; converting that rebuilt value
\* gives a facade of the same variant and payload.
C19_Bijection ==
  /\ \A r1 \in PlainRefs : \A r2 \in PlainRefs :
       (Image(heap, r1) = Image(heap, r2)) =>
         (heap[r1].kind = heap[r2].kind /\ heap[r1].inner = heap[r2].inner)
  /\ \A f \in ResRefs :
       /\ RoundTrip(heap, f) = heap[f]
       /\ \A r \in PlainRefs :
            (Image(heap, r) = <<heap[f].cls, heap[f].value, heap[f].error>>) =>
              (heap[r].kind = TagOf(heap[f]) /\ heap[r].inner = PayloadOf(heap[f]))
  /\ last.op = "Res.from" =>
       /\ TagOf(Returned) = TagOf(Recv)
       /\ PayloadOf(Returned) = PayloadOf(Recv)

\* C19 witness: an ok value and an err value with the same payload and an Err
\* facade are in memory, and Res.from has just converted the ok value.
C19_Witness ==
  /\ last.op = "Res.from"
  /\ Recv.kind = "ok"
  /\ \E r \in PlainRefs : heap[r].kind = "err" /\ heap[r].inner = Recv.inner
  /\ Returned.cls = "Ok"

\* the functions of methods.ts that Res has as a method of the same meaning
BridgedOps ==
  {"isOk", "isOkAnd", "isErr", "isErrAnd", "resultOk", "resultErr", "map",
   "mapOr", "mapOrElse", "mapErr", "inspect", "inspectErr", "expect", "unwrap",
   "unwrapOr", "unwrapOrElse", "expectErr", "unwrapErr", "and", "andThen",
   "or", "orElse"}

\* The outcome of the Res method that corresponds to the last call, a call of
\* a function of methods.ts: the method is called on Res.from(r) with the same
\* callbacks (building with Res.ok / Res.err), default and message, and with
\* Res.from(other) for other.
MethodOutcome ==
  LET b  == Res_from(last.pre, last.recv)
      h  == b.heap
      me == b.ref
      a  == last.args
      o  == IF a.other = Null THEN b ELSE Res_from(h, a.other)
  IN CASE last.op = "isOk"         -> Bool(h, Res_isOk(h, me), <<>>)
       [] last.op = "isErr"        -> Bool(h, Res_isErr(h, me), <<>>)
       [] last.op = "isOkAnd"      -> Res_isOkAnd(h, me, a.fn)
       [] last.op = "isErrAnd"     -> Res_isErrAnd(h, me, a.fn)
       [] last.op = "resultOk"     -> Res_okMethod(h, me)
       [] last.op = "resultErr"    -> Res_errMethod(h, me)
       [] last.op = "map"          -> Res_map(h, me, a.fn)
       [] last.op = "mapOr"        -> Res_mapOr(h, me, a.dflt, a.fn)
       [] last.op = "mapOrElse"    -> Res_mapOrElse(h, me, a.fn2, a.fn)
       [] last.op = "mapErr"       -> Res_mapErr(h, me, a.fn)
       [] last.op = "inspect"      -> Res_inspect(h, me, a.fn)
       [] last.op = "inspectErr"   -> Res_inspectErr(h, me, a.fn)
       [] last.op = "expect"       -> Res_expect(h, me, a.msg)
       [] last.op = "unwrap"       -> Res_unwrap(h, me)
       [] last.op = "unwrapOr"     -> Res_unwrapOr(h, me, a.dflt)
       [] last.op = "unwrapOrElse" -> Res_unwrapOrElse(h, me, a.fn)
       [] last.op = "expectErr"    -> Res_expectErr(h, me, a.msg)
       [] last.op = "unwrapErr"    -> Res_unwrapErr(h, me)
       [] last.op = "and"          -> Res_and(o.heap, me, o.ref)
       [] last.op = "andThen"      -> Res_andThen(h, me, a.fn)
       [] last.op = "or"           -> Res_or(o.heap, me, o.ref)
       [] last.op = "orElse"       -> Res_orElse(h, me, a.fn)

\* the facade that method call returned
MethodReturned == MethodOutcome.heap[MethodOutcome.ref]

ChainingOps ==
  {"Res.map", "Res.mapErr", "Res.and", "Res.andThen", "Res.or", "Res.orElse"}

\* the calls whose code returns the `other` operand itself:
\* and on an Ok receiver, or on an Err receiver
ReturnsOther ==
  \/ last.op = "Res.and" /\ Recv.cls = "Ok"
  \/ last.op = "Res.or" /\ Recv.cls = "Err"

\* the calls whose code returns what the callback returned:
\* andThen on an Ok receiver, orElse on an Err receiver
ReturnsCallbackResult ==
  \/ last.op = "Res.andThen" /\ Recv.cls = "Ok"
  \/ last.op = "Res.orElse" /\ Recv.cls = "Err"

C22_Immutable ==
  [][\A i \in DOMAIN heap : i \in DOMAIN heap' /\ heap'[i] = heap[i]]_vars

\* a failing unwrapErr has been made on one of two Results and both are as
\* they were
C22_Witness ==
  /\ last.op = "Res.unwrapErr"
  /\ last.t = "throw"
  /\ Len(heap) = 2
  /\ heap = last.pre

\* C23: the constructors cannot fail and build exactly a two-field record.
\* ok(v) returns a new plain object whose own properties are kind and inner
\* and nothing else, with kind "ok" and inner the payload as given; err(e)
\* likewise with kind "err".
C23_Constructors ==
  last.op \in {"ok", "err"} =>
    /\ last.t = "ref"
    /\ last.ref \notin DOMAIN last.pre
    /\ Returned.cls = "Object"
    /\ Returned.own = {"kind", "inner"}
    /\ Returned.kind = last.op
    /\ Returned.inner = last.args.value
    /\ Returned.value = Undefined
    /\ Returned.error = Undefined

\* err(0) has built {kind: "err", inner: 0}: a falsy payload is stored as given
C23_Witness ==
  /\ last.op = "err"
  /\ last.args.value = 0
  /\ Returned.own = {"kind", "inner"}
  /\ Returned.inner = 0

\* C24 as stated: the plain value the constructors build carries its
\* discriminant in a field named tag.
C24_DiscriminantNamedTag ==
  last.op \in {"ok", "err"} => "tag" \in Returned.own

\* C24 (amended): the plain value the constructors build carries its
\* discriminant in a field named kind, {kind: "ok", inner} for a success and
\* {kind: "err", inner} for a failure, and has no field named tag.
C24_DiscriminantNamedKind ==
  last.op \in {"ok", "err"} =>
    /\ "kind" \in Returned.own
    /\ "tag" \notin Returned.own
    /\ last.op = "ok" => Returned.kind = "ok"
    /\ last.op = "err" => Returned.kind = "err"

\* ok(v) has built a value whose kind reads "ok"
C24_Witness ==
  /\ last.op = "ok"
  /\ last.t = "ref"
  /\ Returned.kind = "ok"
  /\ "kind" \in Returned.own

\* C25: toJSON() of an Ok holding v is exactly {kind: "ok", value: v} and of
\* an Err holding e exactly {kind: "err", error: e}: the own properties are
\* kind and the variant's payload field only, so no inner field and not the
\* shape {kind, inner} of the tagged value.
C25_ToJSON ==
  last.op = "Res.toJSON" =>
    /\ last.t = "obj"
    /\ heap = last.pre
    /\ Recv.cls = "Ok" =>
         /\ last.obj.own = {"kind", "value"}
         /\ last.obj.kind = "ok"
         /\ last.obj.value = Recv.value
    /\ Recv.cls = "Err" =>
         /\ last.obj.own = {"kind", "error"}
         /\ last.obj.kind = "err"
         /\ last.obj.error = Recv.error
    /\ "inner" \notin last.obj.own
    /\ last.obj.own # PlainObj(last.obj.kind, PayloadOf(Recv)).own

\* toJSON() has been called on an Err and gave {kind: "err", error: e}
C25_Witness ==
  /\ last.op = "Res.toJSON"
  /\ Recv.cls = "Err"
  /\ last.obj.own = {"kind", "error"}
  /\ last.obj.error = Recv.error

\* the handler of match that the tag of the Result selects, and the other one
MatchSelected ==
  IF Recv.kind = "ok" THEN Call("ok", last.args.fn, Recv.inner)
                      ELSE Call("err", last.args.fn2, Recv.inner)

MatchNotSelected == IF Recv.kind = "ok" THEN "err" ELSE "ok"

\* C26: match(r, {ok, err}) makes exactly one handler call, to the ok handler
\* with v when r is ok(v) and to the err handler with e when r is err(e),
\* never calls the other handler, and returns what the called handler
\* returned, unchanged; it builds nothing and does not throw.
C26_Match ==
  last.op = "match" =>
    /\ Len(last.calls) = 1
    /\ last.calls[1] = MatchSelected
    /\ \A i \in DOMAIN last.calls : last.calls[i].role # MatchNotSelected
    /\ last.t = "val"
    /\ last.val = ApplyFn(MatchSelected.fn, MatchSelected.arg)
    /\ heap = last.pre

\* match on ok(v) with two handlers that return different values for v has
\* returned the ok handler's value
C26_Witness ==
  /\ last.op = "match"
  /\ Recv.kind = "ok"
  /\ ApplyFn(last.args.fn, Recv.inner) # ApplyFn(last.args.fn2, Recv.inner)
  /\ last.val = ApplyFn(last.args.fn, Recv.inner)

(* --------------------------- a chain of calls -------------------------- *)

(***************************************************************************)
(* A chain  err(e).map(f).inspect(g).and(o).andThen(h) ... .unwrapOr(d):   *)
(* the caller builds its operands, starts the chain with err(e) or         *)
(* Res.err(e), and makes each further call on the Result the call before   *)
(* it returned.  `last.args.value` keeps the payload e the chain started   *)
(* from.                                                                   *)
(***************************************************************************)

\* the calls a chain goes through before its final unwrapOr
ChainStepOps ==
  {"map", "inspect", "and", "andThen",
   "Res.map", "Res.inspect", "Res.and", "Res.andThen"}

ChainOps == {"err", "Res.err"} \cup ChainStepOps \cup {"unwrapOr", "Res.unwrapOr"}

\* the chain can go on from the plain Result / the instance just returned
ChainAtPlain ==
  /\ last.op \in {"err"} \cup ChainStepOps
  /\ last.t = "ref"
  /\ heap[last.ref].cls = "Object"

ChainAtRes ==
  /\ last.op \in {"Res.err"} \cup ChainStepOps
  /\ last.t = "ref"
  /\ heap[last.ref].cls \in {"Ok", "Err"}

\* the arguments of a chained call, carrying on the payload the chain began with
ChainArgs(args) == [args EXCEPT !.value = last.args.value]

Chain_map ==
  /\ ChainAtPlain
  /\ \E fn \in ValueFns :
       Do("map", last.ref, ChainArgs([NoArgs EXCEPT !.fn = fn]),
          map(heap, last.ref, fn))

Chain_inspect ==
  /\ ChainAtPlain
  /\ \E fn \in ValueFns :
       Do("inspect", last.ref, ChainArgs([NoArgs EXCEPT !.fn = fn]),
          inspect(heap, last.ref, fn))

Chain_and ==
  /\ ChainAtPlain
  /\ \E other \in PlainRefs :
       Do("and", last.ref, ChainArgs([NoArgs EXCEPT !.other = other]),
          and(heap, last.ref, other))

Chain_andThen ==
  /\ ChainAtPlain
  /\ \E fn \in ResultFns :
       Do("andThen", last.ref, ChainArgs([NoArgs EXCEPT !.fn = fn]),
          andThen(heap, last.ref, fn))

Chain_unwrapOr ==
  /\ ChainAtPlain
  /\ \E defaultValue \in Payload :
       Do("unwrapOr", last.ref, ChainArgs([NoArgs EXCEPT !.dflt = defaultValue]),
          unwrapOr(heap, last.ref, defaultValue))

Chain_Res_map ==
  /\ ChainAtRes
  /\ \E fn \in ValueFns :
       Do("Res.map", last.ref, ChainArgs([NoArgs EXCEPT !.fn = fn]),
          Res_map(heap, last.ref, fn))

Chain_Res_inspect ==
  /\ ChainAtRes
  /\ \E fn \in ValueFns :
       Do("Res.inspect", last.ref, ChainArgs([NoArgs EXCEPT !.fn = fn]),
          Res_inspect(heap, last.ref, fn))

Chain_Res_and ==
  /\ ChainAtRes
  /\ \E other \in ResRefs :
       Do("Res.and", last.ref, ChainArgs([NoArgs EXCEPT !.other = other]),
          Res_and(heap, last.ref, other))

Chain_Res_andThen ==
  /\ ChainAtRes
  /\ \E fn \in ResultFns :
       Do("Res.andThen", last.ref, ChainArgs([NoArgs EXCEPT !.fn = fn]),
          Res_andThen(heap, last.ref, fn))

Chain_Res_unwrapOr ==
  /\ ChainAtRes
  /\ \E defaultValue \in Payload :
       Do("Res.unwrapOr", last.ref,
          ChainArgs([NoArgs EXCEPT !.dflt = defaultValue]),
          Res_unwrapOr(heap, last.ref, defaultValue))

ChainNext ==
  \/ Continue
  \/ Call_ok
  \/ Call_err
  \/ Call_Res_ok
  \/ Call_Res_err
  \/ Chain_map
  \/ Chain_inspect
  \/ Chain_and
  \/ Chain_andThen
  \/ Chain_unwrapOr
  \/ Chain_Res_map
  \/ Chain_Res_inspect
  \/ Chain_Res_and
  \/ Chain_Res_andThen
  \/ Chain_Res_unwrapOr

SpecChain == Init /\ [][ChainNext]_vars

\* C27: error propagation through a chain.  At every point of a chain that
\* started from err(e) or Res.err(e) and went through any sequence of map,
\* inspect, and, andThen, no callback has been invoked, the Result the chain
\* has reached is an err carrying e, and a final unwrapOr(d) returns d.
C27_ErrorPropagates ==
  last.op \in ChainOps =>
    /\ last.calls = <<>>
    /\ last.t \in {"ref", "val"}
    /\ last.t = "ref" =>
         /\ TagOf(Returned) = "err"
         /\ PayloadOf(Returned) = last.args.value
    /\ last.op \in {"unwrapOr", "Res.unwrapOr"} =>
         /\ last.t = "val"
         /\ last.val = last.args.dflt

\* a chain Res.err(e).m1(..).m2(..).unwrapOr(d) with d # e, each of m1 and m2
\* having built a new Err, has returned d
C27_Witness ==
  /\ last.op = "Res.unwrapOr"
  /\ Len(heap) = 3
  /\ last.recv = 3
  /\ heap[1].cls = "Err"
  /\ last.args.dflt # last.args.value
  /\ last.val = last.args.dflt

\* the methods of Res (not the static ok, err, from)
ResMethodOps ==
  {"Res.isOk", "Res.isErr", "Res.isOkAnd", "Res.isErrAnd", "Res.ok()",
   "Res.err()", "Res.map", "Res.mapOr", "Res.mapOrElse", "Res.mapErr",
   "Res.inspect", "Res.inspectErr", "Res.expect", "Res.unwrap", "Res.unwrapOr",
   "Res.unwrapOrElse", "Res.expectErr", "Res.unwrapErr", "Res.and",
   "Res.andThen", "Res.or", "Res.orElse", "Res.toJSON"}

\* ok() on an Err and err() on an Ok return the literal `undefined`
ReturnsUndefinedLiteral ==
  \/ last.op = "Res.ok()" /\ Recv.cls = "Err"
  \/ last.op = "Res.err()" /\ Recv.cls = "Ok"

\* C28: no method of Res lets the accessor that is not valid for the receiver
\* (the `error` of an Ok, the `value` of an Err, both never assigned) flow out
\* of the call: with payloads, defaults and callback results that are not
\* undefined, no callback is handed undefined, no returned Result carries
\* undefined, and no returned value is undefined except the literal
\* `undefined` that ok() returns on an Err and err() returns on an Ok.
C28_NoInvalidAccessorFlows ==
  last.op \in ResMethodOps =>
    /\ \A i \in DOMAIN last.calls : last.calls[i].arg # Undefined
    /\ last.t = "ref" => PayloadOf(Returned) # Undefined
    /\ (last.t = "val" /\ ~ReturnsUndefinedLiteral) => last.val # Undefined
    /\ last.t = "obj" =>
         \/ last.obj.own = {"kind", "value"} /\ last.obj.value # Undefined
         \/ last.obj.own = {"kind", "error"} /\ last.obj.error # Undefined

\* mapErr on an Ok, whose `error` is undefined, has built an Ok from `value`
C28_Witness ==
  /\ last.op = "Res.mapErr"
  /\ Recv.cls = "Ok"
  /\ Recv.error = Undefined
  /\ last.t = "ref"
  /\ last.ref \notin DOMAIN last.pre
  /\ Returned.value = Recv.value

\* the behaviour in heap h of the caller's function v => andThen(f(v), g)
ThenFn(h, f, g) ==
  [x \in Values |->
     LET a == NamedResultFn(h, f)[x]
         b == andThen(a.heap, a.ref, g)
     IN [heap |-> b.heap, ref |-> b.ref, calls |-> a.calls \o b.calls]]

\* the behaviour in heap h of the caller's function v => f(v).andThen(g)
ResThenFn(h, f, g) ==
  [x \in Values |->
     LET a == NamedResFn(h, f)[x]
         b == Res_andThen(a.heap, a.ref, g)
     IN [heap |-> b.heap, ref |-> b.ref, calls |-> a.calls \o b.calls]]

\* two outcomes return Results of the same tag and payload
SameResult(x, y) ==
  /\ x.t = "ref"
  /\ y.t = "ref"
  /\ TagOf(x.heap[x.ref]) = TagOf(y.heap[y.ref])
  /\ PayloadOf(x.heap[x.ref]) = PayloadOf(y.heap[y.ref])

\* C29: andThen is associative.  After andThen(r, f), for every g,
\* andThen(andThen(r, f), g) and andThen(r, v => andThen(f(v), g)) return
\* Results of the same tag and payload and make the same calls to f and g,
\* in the same order with the same arguments; likewise for the method
\* andThen of Res.
C29_AndThenAssociative ==
  /\ last.op = "andThen" =>
       \A g \in ResultFns :
         LET left == andThen(heap, last.ref, g)
             right == andThenBy(last.pre, last.recv,
                                ThenFn(last.pre, last.args.fn, g))
         IN /\ SameResult(left, right)
            /\ last.calls \o left.calls = right.calls
  /\ last.op = "Res.andThen" =>
       \A g \in ResultFns :
         LET left == Res_andThen(heap, last.ref, g)
             right == Res_andThenBy(last.pre, last.recv,
                                    ResThenFn(last.pre, last.args.fn, g))
         IN /\ SameResult(left, right)
            /\ last.calls \o left.calls = right.calls

\* andThen(ok(v), check) has returned an ok, so that a following andThen
\* calls its callback too: both f and g are invoked on either side
C29_Witness ==
  /\ last.op = "andThen"
  /\ Recv.kind = "ok"
  /\ last.args.fn = "check"
  /\ Returned.kind = "ok"
  /\ Len(last.calls) = 1
  /\ Len(andThen(heap, last.ref, "wrapErr").calls) = 1

\* swap(r): the caller builds the Result of the other tag with r's payload
swap(h, r) ==
  IF h[r].kind = "ok" THEN err(h, h[r].inner) ELSE ok(h, h[r].inner)

\* the Result swap gives for the Result an outcome returned
Swapped(out) == LET s == swap(out.heap, out.ref) IN s.heap[s.ref]

\* the behaviour in heap h of the caller's function e => swap(f(e))
SwapFn(h, f) ==
  [x \in Values |->
     LET a == NamedResultFn(h, f)[x]
         s == swap(a.heap, a.ref)
     IN [heap |-> s.heap, ref |-> s.ref, calls |-> a.calls]]

\* the last call returned a Result equal in tag and payload to swap of the
\* Result the outcome `dual` returned, and made the same calls
EqualsSwapOf(dual) ==
  /\ last.t = "ref"
  /\ dual.t = "ref"
  /\ Returned.kind = Swapped(dual).kind
  /\ Returned.inner = Swapped(dual).inner
  /\ last.calls = dual.calls

\* C30: Ok/Err duality.  With s = swap(r): mapErr(r, f) = swap(map(s, f)),
\* or(r, o) = swap(and(s, swap(o))), orElse(r, f) =
\* swap(andThen(s, e => swap(f(e)))), inspectErr(r, f) = swap(inspect(s, f))
\* in tag and payload, resultErr(r) = resultOk(s) and
\* isErrAnd(r, p) = isOkAnd(s, p); each side calls f or p with the same
\* arguments.
C30_Duality ==
  LET s == swap(last.pre, last.recv) IN
  /\ last.op = "mapErr" => EqualsSwapOf(map(s.heap, s.ref, last.args.fn))
  /\ last.op = "or" =>
       LET o == swap(s.heap, last.args.other)
       IN EqualsSwapOf(and(o.heap, s.ref, o.ref))
  /\ last.op = "orElse" =>
       EqualsSwapOf(andThenBy(s.heap, s.ref, SwapFn(s.heap, last.args.fn)))
  /\ last.op = "inspectErr" =>
       EqualsSwapOf(inspect(s.heap, s.ref, last.args.fn))
  /\ last.op = "resultErr" =>
       /\ last.t = "val"
       /\ resultOk(s.heap, s.ref).t = "val"
       /\ last.val = resultOk(s.heap, s.ref).val
  /\ last.op = "isErrAnd" =>
       LET d == isOkAnd(s.heap, s.ref, last.args.fn)
       IN /\ last.t = "bool"
          /\ d.t = "bool"
          /\ last.flag = d.flag
          /\ last.calls = d.calls

\* orElse(err(e), check) has returned the ok its callback built, which the
\* dual side reaches by swapping the callback's Result twice
C30_Witness ==
  /\ last.op = "orElse"
  /\ Recv.kind = "err"
  /\ last.args.fn = "check"
  /\ Returned.kind = "ok"
  /\ Len(last.calls) = 1

====
